---------------------------- MODULE Spec2Model ----------------------------
(***************************************************************************)
(* Model of src/table_properties_collector.rs: the bridge that lets the    *)
(* storage engine drive a user TablePropertiesCollector through an opaque  *)
(* handle pointer and five extern "C" trampolines (name, destruct, add,    *)
(* finish, need_compact), plus the constructor                             *)
(* new_table_properties_collector.                                         *)
(*                                                                         *)
(* The state is the heap of handles, the allocator's counts, the engine's  *)
(* side of every table (what it sent, the output sink it owns), the call   *)
(* that has just returned with what it gave back, and the fate of the      *)
(* process.  Bytes are numbers 0..255, byte strings are sequences of them. *)
(*                                                                         *)
(* The engine keeps its side of the contract: it calls trampolines only on *)
(* live handles, one call at a time, sends only defined entry-type codes,  *)
(* calls finish at most once per handle and add never after it, and calls  *)
(* destruct once.                                                          *)
(***************************************************************************)
EXTENDS Integers, Sequences, FiniteSets, Bags, TLC

VARIABLES heap, nextPtr, allocs, frees, builder, issued, ret, proc

vars == <<heap, nextPtr, allocs, frees, builder, issued, ret, proc>>

----------------------------------------------------------------------------
(* Bounds of the model *)

\* number of handles the host creates
MaxHandles == 2

\* number of add calls the engine issues, over all tables
MaxAdds == 3

Ptrs == 1..MaxHandles

----------------------------------------------------------------------------
(* Helpers *)

Range(s) == {s[i] : i \in 1..Len(s)}

SetMax(S) == CHOOSE m \in S : \A x \in S : x <= m

\* all orders in which the elements of a finite set can be enumerated
RECURSIVE Orders(_)
Orders(S) ==
    IF S = {} THEN {<<>>}
    ELSE UNION {{<<x>> \o t : t \in Orders(S \ {x})} : x \in S}

----------------------------------------------------------------------------
(* Inputs of the host and of the engine *)

\* the create calls of the host: a name and the collector's type; the
\* names are "t", "c1", "t\0c" and "c\0"
CreateCalls ==
    { [cname |-> <<116>>, T |-> "StatsCollector"],
      [cname |-> <<99, 49>>, T |-> "CompactCollector"],
      [cname |-> <<116, 0, 99>>, T |-> "StatsCollector"],
      [cname |-> <<99, 0>>, T |-> "CompactCollector"] }

\* engine memory the key and value pointers of an add call point into
KeyBuf == <<107, 49>>

ValBuf == <<118>>

\* the add calls the engine may issue: pointer contents, lengths, code
\* (one call per defined code), sequence number, file size
AddCalls ==
    { [key |-> KeyBuf, key_len |-> 0, value |-> ValBuf, value_len |-> 1,
       entry_type |-> 0, seq |-> 7, file_size |-> 10],
      [key |-> KeyBuf, key_len |-> 1, value |-> ValBuf, value_len |-> 0,
       entry_type |-> 1, seq |-> 8, file_size |-> 20],
      [key |-> KeyBuf, key_len |-> 2, value |-> ValBuf, value_len |-> 1,
       entry_type |-> 3, seq |-> 9, file_size |-> 30],
      [key |-> KeyBuf, key_len |-> 0, value |-> ValBuf, value_len |-> 0,
       entry_type |-> 2, seq |-> 30, file_size |-> 10],
      [key |-> KeyBuf, key_len |-> 1, value |-> ValBuf, value_len |-> 1,
       entry_type |-> 4, seq |-> 10, file_size |-> 20] }

\* the add call on which a failing Collector panics
PanicCalls == {c \in AddCalls : c.entry_type = 1}

----------------------------------------------------------------------------
(* The Collector capability and the two collectors the host supplies *)

\* DBEntryType of crocksdb_ffi, in discriminant order (code 0 first)
DBEntryType == <<"Put", "Delete", "SingleDelete", "Merge", "Other">>

\* decimal ASCII digits of a natural number
RECURSIVE ToDecimal(_)
ToDecimal(n) ==
    IF n < 10 THEN <<48 + n>>
    ELSE Append(ToDecimal(n \div 10), 48 + (n % 10))

NewCollector(T) ==
    [type |-> T, count |-> 0, max_size |-> 0, types |-> {}, finished |-> 0]

NoCollector ==
    [type |-> "none", count |-> 0, max_size |-> 0, types |-> {}, finished |-> 0]

\* StatsCollector counts the entries and keeps the largest file size;
\* CompactCollector records the distinct entry types it is given
CollectorAdd(rep, key, value, entry_type, seq, file_size) ==
    IF rep.type = "StatsCollector"
    THEN [rep EXCEPT !.count = @ + 1,
                     !.max_size = IF file_size > @ THEN file_size ELSE @]
    ELSE [rep EXCEPT !.types = @ \cup {entry_type}]

\* the HashMap that Collector::finish returns, as a function from keys
CollectorFinishMap(rep) ==
    IF rep.type = "StatsCollector"
    THEN [k \in {"count", "max_size"} |->
            IF k = "count" THEN ToDecimal(rep.count) ELSE ToDecimal(rep.max_size)]
    ELSE [k \in {"num_types", "deletes"} |->
            IF k = "num_types" THEN ToDecimal(Cardinality(rep.types))
            ELSE IF "Delete" \in rep.types THEN <<49>> ELSE <<48>>]

CollectorFinish(rep) ==
    [rep |-> [rep EXCEPT !.finished = @ + 1], map |-> CollectorFinishMap(rep)]

\* CompactCollector's own need_compact: a table that holds deletions
\* should be compacted
CompactCollectorNeedCompact(rep) == "Delete" \in rep.types

\* the trait's provided method
DefaultNeedCompact(rep) == FALSE

\* whether the collector type provides need_compact itself
Overrides(T) == T = "CompactCollector"

\* static dispatch of T::need_compact
TraitNeedCompact(rep) ==
    IF Overrides(rep.type) THEN CompactCollectorNeedCompact(rep)
    ELSE DefaultNeedCompact(rep)

----------------------------------------------------------------------------
(* The Handle and the library calls the bridge leans on *)

\* CString::new: an error on any 0 byte, else the bytes and a terminator
CStringNew(bytes) ==
    IF 0 \in Range(bytes) THEN [ok |-> FALSE, buf |-> <<>>]
    ELSE [ok |-> TRUE, buf |-> Append(bytes, 0)]

\* what a reader of the returned *const c_char sees: the bytes before the
\* first 0
CStrRead(buf) ==
    LET n == CHOOSE i \in 1..Len(buf) :
                 buf[i] = 0 /\ \A j \in 1..(i - 1) : buf[j] # 0
    IN  SubSeq(buf, 1, n - 1)

\* from_raw_parts that takes a zero length for "at least one byte"
from_raw_parts_nonempty(buf, len) ==
    [i \in 1..(IF len = 0 THEN 1 ELSE len) |-> buf[i]]

\* slice::from_raw_parts(ptr, len): the len bytes at ptr
from_raw_parts(buf, len) == [i \in 1..len |-> buf[i]]

\* a conversion that counts the discriminants from 1 instead of 0
transmute_shifted(code) == {DBEntryType[((code + 1) % Len(DBEntryType)) + 1]}

\* mem::transmute::<c_int, DBEntryType>: the variant with that discriminant;
\* a code with no variant is undefined behaviour, any value may come out
transmute(code) ==
    IF code \in 0..(Len(DBEntryType) - 1) THEN {DBEntryType[code + 1]}
    ELSE Range(DBEntryType) \cup {"Invalid"}

\* a panic leaving an extern "C" fn that has no catch_unwind: the build
\* either aborts the process or unwinds into the engine's frames
PanicOutcomes == {"aborted", "unwound"}

NoHandle == [state |-> "unallocated", name |-> <<>>, rep |-> NoCollector]

FreedHandle == [state |-> "freed", name |-> <<>>, rep |-> NoCollector]

\* a constructor that builds the C string without looking for 0 bytes
HandleNew_unchecked(cname, rep) ==
    [ok |-> TRUE,
     handle |-> [state |-> "live", name |-> Append(cname, 0), rep |-> rep]]

\* TablePropertiesCollectorHandle::new: unwrap panics on a bad name
HandleNew(cname, rep) ==
    LET c == CStringNew(cname)
    IN  IF c.ok
        THEN [ok |-> TRUE,
              handle |-> [state |-> "live", name |-> c.buf, rep |-> rep]]
        ELSE [ok |-> FALSE, handle |-> NoHandle]

----------------------------------------------------------------------------
(* The trampolines, as functions of the handle the pointer refers to *)

\* a name that returns the pointer of a temporary copy, dangling on return
name_of_temporary(handle) == [handle |-> handle, ret |-> <<0>>]

\* a name that moves the stored name out of the handle
name_takes(handle) ==
    [handle |-> [handle EXCEPT !.name = <<0>>], ret |-> handle.name]

\* name: a pointer to the stored name; the handle is not written
name(handle) == [handle |-> handle, ret |-> handle.name]

\* a destruct that rebuilds the Box and forgets it
destruct_forgets(handle) == [handle |-> handle, freed |-> 0]

\* destruct: Box::from_raw and drop, one deallocation
destruct(handle) == [handle |-> FreedHandle, freed |-> 1]

\* an add that hands file_size and seq over in each other's place
add_swapped(handle, key, key_len, value, value_len, entry_type, seq, file_size) ==
    LET k == from_raw_parts(key, key_len)
        v == from_raw_parts(value, value_len)
    IN  { [handle |-> [handle EXCEPT
                         !.rep = CollectorAdd(@, k, v, et, file_size, seq)],
           recv |-> [key |-> k, value |-> v, entry_type |-> et,
                     seq |-> file_size, file_size |-> seq]]
          : et \in transmute(entry_type) }

\* add: the possible outcomes of one call that returns; recv is what the
\* Collector's add was called with
add(handle, key, key_len, value, value_len, entry_type, seq, file_size) ==
    LET k == from_raw_parts(key, key_len)
        v == from_raw_parts(value, value_len)
    IN  { [handle |-> [handle EXCEPT
                         !.rep = CollectorAdd(@, k, v, et, seq, file_size)],
           recv |-> [key |-> k, value |-> v, entry_type |-> et,
                     seq |-> seq, file_size |-> file_size]]
          : et \in transmute(entry_type) }

\* crocksdb_user_collected_properties_add, called once per element of
\* pairs: the sink holds one more copy of each pair appended
RECURSIVE AppendAll(_, _)
AppendAll(props, pairs) ==
    IF pairs = <<>> THEN props
    ELSE AppendAll(props (+) SetToBag({Head(pairs)}), Tail(pairs))

\* a finish that leaves its loop after the first pair
finish_stops_early(handle, props, order) ==
    LET r == CollectorFinish(handle.rep)
        yielded == [i \in 1..Len(order) |-> <<order[i], r.map[order[i]]>>]
        first == SubSeq(yielded, 1, 1)
    IN  [handle |-> [handle EXCEPT !.rep = r.rep],
         props |-> AppendAll(props, first),
         appended |-> first]

\* finish: one call of Collector::finish, then one append per pair of the
\* map, in the order the map's iterator yields its keys (order); appended
\* is the sequence of append calls made
finish(handle, props, order) ==
    LET r == CollectorFinish(handle.rep)
        yielded == [i \in 1..Len(order) |-> <<order[i], r.map[order[i]]>>]
    IN  [handle |-> [handle EXCEPT !.rep = r.rep],
         props |-> AppendAll(props, yielded),
         appended |-> yielded]

\* a need_compact that answers with the trait's provided method whatever
\* the collector type
need_compact_unforwarded(handle) ==
    [handle |-> handle, ret |-> DefaultNeedCompact(handle.rep)]

\* need_compact: forwards to T::need_compact through a shared borrow; the
\* handle is not written
need_compact(handle) == [handle |-> handle, ret |-> TraitNeedCompact(handle.rep)]

\* new_table_properties_collector: build the handle, then box it and hand
\* the pointer out; a panic of HandleNew leaves before Box::new
new_table_properties_collector(cname, collector) ==
    LET h == HandleNew(cname, collector)
    IN  [ok |-> h.ok, boxed |-> h.ok, handle |-> h.handle]

----------------------------------------------------------------------------
(* The state machine: the host creates collectors, the engine drives them *)

\* the engine's side of one table: the name and collector type the host
\* gave, the output sink (a bag of appended pairs), its finish and destruct
\* calls, and what it has sent so far: the number of adds and the file
\* sizes for a table with a StatsCollector, the codes for one with a
\* CompactCollector
NoBuilder ==
    [cname |-> <<>>, T |-> "none", adds |-> 0, codes |-> {}, sizes |-> {},
     props |-> EmptyBag, finishes |-> 0, destroys |-> 0]

NoRet == [op |-> "none", h |-> 0, ok |-> TRUE, arg |-> <<>>, val |-> <<>>]

Live(p) == heap[p].state = "live"

\* the process is alive and no call is waiting to be taken
Idle == proc = "running" /\ ret = NoRet

\* a panic of the Collector inside trampoline op on handle p: the process
\* ends one of the ways PanicOutcomes names, and its memory with it
Crash(op, p) ==
    /\ proc' \in PanicOutcomes
    /\ ret' = [op |-> op, h |-> p, ok |-> FALSE, arg |-> <<>>, val |-> <<>>]
    /\ heap' = [q \in Ptrs |-> NoHandle]
    /\ builder' = [q \in Ptrs |-> NoBuilder]
    /\ nextPtr' = 1
    /\ allocs' = [q \in Ptrs |-> 0]
    /\ frees' = [q \in Ptrs |-> 0]
    /\ issued' = 0

Init ==
    /\ heap = [p \in Ptrs |-> NoHandle]
    /\ nextPtr = 1
    /\ allocs = [p \in Ptrs |-> 0]
    /\ frees = [p \in Ptrs |-> 0]
    /\ builder = [p \in Ptrs |-> NoBuilder]
    /\ issued = 0
    /\ ret = NoRet
    /\ proc = "running"

\* the host calls new_table_properties_collector(cname, collector of type T)
Create(cname, T) ==
    /\ Idle
    /\ nextPtr <= MaxHandles
    /\ LET r == new_table_properties_collector(cname, NewCollector(T))
       IN  /\ IF r.boxed
              THEN /\ heap' = [heap EXCEPT ![nextPtr] = r.handle]
                   /\ allocs' = [allocs EXCEPT ![nextPtr] = @ + 1]
              ELSE UNCHANGED <<heap, allocs>>
           /\ IF r.ok
              THEN /\ nextPtr' = nextPtr + 1
                   /\ builder' = [builder EXCEPT ![nextPtr] =
                                    [NoBuilder EXCEPT !.cname = cname, !.T = T]]
                   /\ ret' = [op |-> "create", h |-> nextPtr, ok |-> TRUE,
                              arg |-> cname, val |-> <<>>]
              ELSE /\ UNCHANGED <<nextPtr, builder>>
                   /\ ret' = [op |-> "create", h |-> 0, ok |-> FALSE,
                              arg |-> cname, val |-> <<>>]
    /\ UNCHANGED <<frees, issued, proc>>

\* the engine calls the name trampoline
Name(p) ==
    /\ Idle
    /\ Live(p)
    /\ LET r == name(heap[p])
       IN  /\ heap' = [heap EXCEPT ![p] = r.handle]
           /\ ret' = [op |-> "name", h |-> p, ok |-> TRUE, arg |-> <<>>,
                      val |-> r.ret]
    /\ UNCHANGED <<nextPtr, allocs, frees, builder, issued, proc>>

\* the engine calls the add trampoline; panics says whether the Collector's
\* add fails on this call
Add(p, c, panics) ==
    /\ Idle
    /\ Live(p)
    /\ builder[p].finishes = 0
    /\ issued < MaxAdds
    /\ IF panics
       THEN Crash("add", p)
       ELSE /\ \E out \in add(heap[p], c.key, c.key_len, c.value, c.value_len,
                              c.entry_type, c.seq, c.file_size) :
                 /\ heap' = [heap EXCEPT ![p] = out.handle]
                 /\ ret' = [op |-> "add", h |-> p, ok |-> TRUE, arg |-> c,
                            val |-> out.recv]
            /\ builder' =
                 IF builder[p].T = "StatsCollector"
                 THEN [builder EXCEPT ![p].adds = @ + 1,
                                      ![p].sizes = @ \cup {c.file_size}]
                 ELSE [builder EXCEPT ![p].codes = @ \cup {c.entry_type}]
            /\ issued' = issued + 1
            /\ UNCHANGED <<nextPtr, allocs, frees, proc>>

\* the engine calls the finish trampoline with the table's output sink;
\* order is the order in which the returned HashMap is iterated
Finish(p, panics) ==
    /\ Idle
    /\ Live(p)
    /\ builder[p].finishes = 0
    /\ IF panics
       THEN Crash("finish", p)
       ELSE /\ \E order \in Orders(DOMAIN CollectorFinishMap(heap[p].rep)) :
                 LET r == finish(heap[p], builder[p].props, order)
                 IN  /\ heap' = [heap EXCEPT ![p] = r.handle]
                     /\ builder' = [builder EXCEPT ![p].finishes = @ + 1,
                                                   ![p].props = r.props]
                     /\ ret' = [op |-> "finish", h |-> p, ok |-> TRUE,
                                arg |-> order, val |-> r.appended]
            /\ UNCHANGED <<nextPtr, allocs, frees, issued, proc>>

\* the engine calls the need_compact trampoline
NeedCompact(p, panics) ==
    /\ Idle
    /\ Live(p)
    /\ IF panics
       THEN Crash("need_compact", p)
       ELSE /\ LET r == need_compact(heap[p])
               IN  /\ heap' = [heap EXCEPT ![p] = r.handle]
                   /\ ret' = [op |-> "need_compact", h |-> p, ok |-> TRUE,
                              arg |-> <<>>, val |-> r.ret]
            /\ UNCHANGED <<nextPtr, allocs, frees, builder, issued, proc>>

\* the engine calls the destruct trampoline, once per handle, and lets go
\* of the table
Destroy(p) ==
    /\ Idle
    /\ Live(p)
    /\ builder[p].destroys = 0
    /\ LET r == destruct(heap[p])
       IN  /\ heap' = [heap EXCEPT ![p] = r.handle]
           /\ frees' = [frees EXCEPT ![p] = @ + r.freed]
    /\ builder' = [builder EXCEPT ![p] = [NoBuilder EXCEPT !.destroys = 1]]
    /\ ret' = [op |-> "destroy", h |-> p, ok |-> TRUE, arg |-> <<>>,
               val |-> <<>>]
    /\ UNCHANGED <<nextPtr, allocs, issued, proc>>

\* the caller takes what the last call returned
Return ==
    /\ proc = "running"
    /\ ret # NoRet
    /\ ret' = NoRet
    /\ UNCHANGED <<heap, nextPtr, allocs, frees, builder, issued, proc>>

Next ==
    \/ \E c \in CreateCalls : Create(c.cname, c.T)
    \/ \E p \in Ptrs : Name(p)
    \/ \E p \in Ptrs, c \in AddCalls : Add(p, c, FALSE)
    \/ \E p \in Ptrs, c \in PanicCalls : Add(p, c, TRUE)
    \/ \E p \in Ptrs, panics \in BOOLEAN : Finish(p, panics)
    \/ \E p \in Ptrs, panics \in BOOLEAN : NeedCompact(p, panics)
    \/ \E p \in Ptrs : Destroy(p)
    \/ Return

Spec == Init /\ [][Next]_vars

----------------------------------------------------------------------------
(* Properties of the bridge *)

\* the pairs of a finish map
Pairs(m) == {<<k, m[k]>> : k \in DOMAIN m}

\* the largest file size the engine sent to table p, 0 before the first
MaxSent(p) == IF builder[p].sizes = {} THEN 0 ELSE SetMax(builder[p].sizes)

\* the documented meaning of the engine's entry-type codes
EntryTypeOfCode(c) ==
    CASE c = 0 -> "Put"
      [] c = 1 -> "Delete"
      [] c = 2 -> "SingleDelete"
      [] c = 3 -> "Merge"
      [] c = 4 -> "Other"

\* C1: when the finish trampoline returns, the Collector's finish has been
\* called exactly once on that handle, and the append calls made are, in the
\* order the returned map was iterated, exactly one per pair of the map that
\* this handle's Collector returned; the sink of every table holds nothing
\* before its finish and afterwards exactly one copy of each pair of its own
\* collector's map, whatever happened on other handles.
C1_FinishForwardsExactly ==
    /\ (ret.op = "finish" /\ ret.ok) =>
          LET m == CollectorFinishMap(heap[ret.h].rep)
          IN  /\ heap[ret.h].rep.finished = 1
              /\ Range(ret.arg) = DOMAIN m
              /\ Len(ret.arg) = Cardinality(DOMAIN m)
              /\ Len(ret.val) = Len(ret.arg)
              /\ \A i \in 1..Len(ret.val) :
                    ret.val[i] = <<ret.arg[i], m[ret.arg[i]]>>
    /\ \A p \in Ptrs : Live(p) =>
          /\ heap[p].rep.finished = builder[p].finishes
          /\ builder[p].props =
                IF builder[p].finishes = 0 THEN EmptyBag
                ELSE SetToBag(Pairs(CollectorFinishMap(heap[p].rep)))

\* a finish has just returned on a handle that was given two adds, while
\* another live handle holds data of its own
C1_Witness ==
    /\ ret.op = "finish" /\ ret.ok
    /\ heap[ret.h].rep.count = 2
    /\ Len(ret.val) = 2
    /\ \E q \in Ptrs \ {ret.h} : Live(q) /\ heap[q].rep.types # {}

\* C2: every successful create allocates exactly one handle; a handle is
\* freed exactly once, by destruct: it stays allocated and unfreed through
\* every name, add, finish and need_compact call until the engine's destruct
\* call, and is freed (once) after it.
C2_OneAllocOneFree ==
    \A p \in Ptrs :
        /\ allocs[p] = (IF p < nextPtr THEN 1 ELSE 0)
        /\ frees[p] = builder[p].destroys
        /\ frees[p] <= 1
        /\ (builder[p].destroys = 1) => heap[p].state = "freed"
        /\ (p < nextPtr /\ builder[p].destroys = 0) => heap[p].state = "live"
        /\ (p >= nextPtr) => heap[p].state = "unallocated"

\* one handle has been destroyed after taking an add on another, which is
\* still live
C2_Witness ==
    \E p, q \in Ptrs :
        /\ p # q
        /\ allocs[p] = 1 /\ frees[p] = 1 /\ heap[p].state = "freed"
        /\ Live(q) /\ frees[q] = 0 /\ issued >= 1

\* C3: a panic of the Collector's add, finish or need_compact never unwinds
\* out of the trampoline into the engine: the call returns or the process
\* aborts.
C3_NoUnwindIntoEngine == proc # "unwound"

\* C4: every call of name on a live handle returns the bytes of the name
\* given to create, and the stored name of every live handle reads as that
\* name, whatever calls came before.
C4_NameStable ==
    /\ (ret.op = "name") => CStrRead(ret.val) = builder[ret.h].cname
    /\ \A p \in Ptrs : Live(p) => CStrRead(heap[p].name) = builder[p].cname

\* name has just returned "t" on a handle that has taken two adds
C4_Witness ==
    /\ ret.op = "name"
    /\ CStrRead(ret.val) = <<116>>
    /\ heap[ret.h].rep.count = 2

\* C5: need_compact returns false for a collector type that does not
\* provide need_compact, and for one that does, the value its need_compact
\* gives in the collector's current state.
C5_NeedCompactForwarded ==
    (ret.op = "need_compact" /\ ret.ok) =>
        ret.val = IF builder[ret.h].T = "CompactCollector"
                  THEN CompactCollectorNeedCompact(heap[ret.h].rep)
                  ELSE FALSE

\* need_compact has just returned true
C5_Witness == ret.op = "need_compact" /\ ret.ok /\ ret.val = TRUE

\* C6: every add call that returns has called the Collector's add once with
\* the key and value bytes, sequence number and file size the engine sent;
\* so a StatsCollector holds the number of adds sent to its handle and the
\* largest file size among them, and reports them in decimal at finish.
C6_AddForwarded ==
    /\ (ret.op = "add" /\ ret.ok) =>
          /\ ret.val.key = SubSeq(ret.arg.key, 1, ret.arg.key_len)
          /\ ret.val.value = SubSeq(ret.arg.value, 1, ret.arg.value_len)
          /\ ret.val.seq = ret.arg.seq
          /\ ret.val.file_size = ret.arg.file_size
    /\ \A p \in Ptrs : (Live(p) /\ builder[p].T = "StatsCollector") =>
          /\ heap[p].rep.count = builder[p].adds
          /\ heap[p].rep.max_size = MaxSent(p)
    /\ (ret.op = "finish" /\ ret.ok /\ builder[ret.h].T = "StatsCollector") =>
          Range(ret.val) = {<<"count", ToDecimal(builder[ret.h].adds)>>,
                            <<"max_size", ToDecimal(MaxSent(ret.h))>>}

\* three adds with file sizes 10, 20 and 30, then finish: "3" and "30"
C6_Witness ==
    /\ ret.op = "finish" /\ ret.ok
    /\ builder[ret.h].adds = 3
    /\ builder[ret.h].sizes = {10, 20, 30}
    /\ Range(ret.val) = {<<"count", <<51>>>>, <<"max_size", <<51, 48>>>>}

\* C7: an add call with key_len = 0 or value_len = 0 returns, and the
\* Collector's add has been called with the empty byte sequence for that
\* argument.
C7_EmptySlicesForwarded ==
    (ret.op = "add" /\ ret.ok) =>
        /\ (ret.arg.key_len = 0) => ret.val.key = <<>>
        /\ (ret.arg.value_len = 0) => ret.val.value = <<>>
        /\ (builder[ret.h].T = "StatsCollector") =>
              heap[ret.h].rep.count = builder[ret.h].adds

\* an add with both lengths 0 has just returned and was counted
C7_Witness ==
    /\ ret.op = "add" /\ ret.ok
    /\ ret.arg.key_len = 0 /\ ret.arg.value_len = 0
    /\ ret.val.key = <<>> /\ ret.val.value = <<>>
    /\ heap[ret.h].rep.count >= 1

\* C8: for every code the engine sends, the Collector's add receives the
\* DBEntryType variant of that code, and no code is turned away: the set of
\* types a CompactCollector has recorded is the set of variants of the codes
\* sent to its handle.
C8_EntryTypeReinterpreted ==
    /\ (ret.op = "add" /\ ret.ok) =>
          ret.val.entry_type = EntryTypeOfCode(ret.arg.entry_type)
    /\ \A p \in Ptrs : (Live(p) /\ builder[p].T = "CompactCollector") =>
          heap[p].rep.types = {EntryTypeOfCode(c) : c \in builder[p].codes}

\* a collector has been sent the codes of deletion, merge and other, and
\* holds those three types
C8_Witness ==
    \E p \in Ptrs :
        /\ Live(p)
        /\ builder[p].codes = {1, 3, 4}
        /\ heap[p].rep.types = {"Delete", "Merge", "Other"}

\* C9: create fails exactly when the name holds a 0 byte; a failed create
\* hands out no pointer and allocates nothing, a successful one leaves a
\* live handle whose name reads as the name given; the handles allocated are
\* exactly those of the successful creates.
C9_CreateFailsOnNul ==
    /\ (ret.op = "create") =>
          /\ ret.ok <=> (0 \notin Range(ret.arg))
          /\ (~ret.ok) => ret.h = 0
          /\ ret.ok => (Live(ret.h) /\ CStrRead(heap[ret.h].name) = ret.arg)
    /\ \A p \in Ptrs : (p >= nextPtr) => (heap[p] = NoHandle /\ allocs[p] = 0)
    /\ Cardinality({p \in Ptrs : allocs[p] > 0}) = nextPtr - 1

\* a create with a 0 byte in the name has just failed, next to a handle
\* created before
C9_Witness ==
    /\ ret.op = "create" /\ ~ret.ok
    /\ 0 \in Range(ret.arg)
    /\ nextPtr = 2 /\ Live(1)

\* C10: a name or need_compact call that returns changes no handle and no
\* table of the engine, and a call of any trampoline on one handle changes
\* no other handle and no other table.
C10_QueriesFrame ==
    [][ /\ (ret = NoRet /\ ret'.op \in {"name", "need_compact"} /\ ret'.ok) =>
              (heap' = heap /\ builder' = builder)
        /\ (ret = NoRet /\ proc' = "running"
              /\ ret'.op \in {"name", "need_compact", "add", "finish", "destroy"}) =>
              \A q \in Ptrs \ {ret'.h} :
                  heap'[q] = heap[q] /\ builder'[q] = builder[q]
      ]_vars

\* need_compact has just returned on one of two live handles that both
\* hold data
C10_Witness ==
    /\ ret.op = "need_compact" /\ ret.ok
    /\ \E q \in Ptrs \ {ret.h} :
          /\ Live(q) /\ Live(ret.h)
          /\ heap[q].rep # NewCollector(heap[q].rep.type)
          /\ heap[ret.h].rep # NewCollector(heap[ret.h].rep.type)

============================================================================
